---- MODULE Spec2Model ----
(***************************************************************************)
(* A model of ActionNet::OrderedQMap<Key,T> and                            *)
(* ActionNet::OrderedQMultiMap<Key,T> (OrderedQMap.h).                     *)
(*                                                                         *)
(* Each container is a QMap / QMultiMap base (the store) plus a private    *)
(* QList<Key> base (the order sequence).  An object is the record          *)
(* [map |-> ..., list |-> ...].  Keys and values are small integers; the   *)
(* default-constructed key K() and value T() are 0.  The Qt 5 primitives   *)
(* the header calls (QList, QMap, QMultiMap, QDataStream) are modelled by  *)
(* the operators named QList_*, QMap_*, QMultiMap_* and Write*/Read*.     *)
(* List positions are 0-based as in the source; a TLA+ sequence s holds    *)
(* position i at s[i+1].                                                   *)
(***************************************************************************)
EXTENDS Integers, Sequences, FiniteSets, TLC

VARIABLES
    obj,     \* the OrderedQMap object
    mobj,    \* the OrderedQMultiMap object
    call,    \* the last call: its name, arguments, result and how it ended
    prev,    \* the object as it was before the last call
    hist,    \* the (key, value) arguments of the logged insert calls
    stream,  \* the QDataStream
    tgt,     \* the object a stream is read into
    detail   \* whether call and prev keep the arguments, result and old object

vars == <<obj, mobj, call, prev, hist, stream, tgt, detail>>

\* ------------------------------------------------------------------ bounds
MaxKey == 2
MaxVal == 1
MaxMKey == 1
MaxMSize == 3
MaxCalls == 4
MaxMergeLen == 2

Key == 0..MaxKey
Val == 0..MaxVal
MKey == 0..MaxMKey

\* Key() and T(): the default-constructed key and value.
DefaultKey == 0
DefaultVal == 0

\* ------------------------------------------------------- QList<Key> (Qt 5)
Range(s) == {s[n] : n \in DOMAIN s}

QList_contains(l, k) == k \in Range(l)

QList_append(l, k) == Append(l, k)

QList_prepend(l, k) == <<k>> \o l

\* indexOf: the first position holding k, -1 when there is none
QList_indexOf(l, k) ==
    IF k \in Range(l)
    THEN (CHOOSE n \in DOMAIN l : l[n] = k /\ \A j \in 1..(n - 1) : l[j] # k) - 1
    ELSE -1

\* removeAt is bounds-checked: outside [0, size) it does nothing
QList_removeAt(l, i) ==
    IF i >= 0 /\ i < Len(l)
    THEN SubSeq(l, 1, i) \o SubSeq(l, i + 2, Len(l))
    ELSE l

QList_removeAll(l, k) == SelectSeq(l, LAMBDA x : x # k)

\* value(i): the element, or a default-constructed one outside [0, size)
QList_value(l, i) == IF i >= 0 /\ i < Len(l) THEN l[i + 1] ELSE DefaultKey

\* at(i) and last(): only called here on positions that exist
QList_at(l, i) == l[i + 1]

QList_last(l) == l[Len(l)]

\* ------------------------------------------------------ QMap<Key,T> (Qt 5)
EmptyMap == [k \in {} |-> DefaultVal]

QMap_insert(m, k, v) == [x \in DOMAIN m \cup {k} |-> IF x = k THEN v ELSE m[x]]

QMap_value(m, k, d) == IF k \in DOMAIN m THEN m[k] ELSE d

QMap_remove(m, k) == [x \in DOMAIN m \ {k} |-> m[x]]

\* non-const operator[]: inserts a default-constructed value for an absent key
QMap_index(m, k) == IF k \in DOMAIN m THEN m ELSE QMap_insert(m, k, DefaultVal)

QMap_size(m) == Cardinality(DOMAIN m)

EmptyObj == [map |-> EmptyMap, list |-> <<>>]

\* the object part of a mutator's result
Obj(r) == [map |-> r.map, list |-> r.list]

\* ------------------------------------------------- OrderedQMap<Key,T>
\* Each mutator returns the object after the call and the call's result.

contains(o, key) == QList_contains(o.list, key)

size(o) == QMap_size(o.map)

keys(o) == o.list

key(o, index) == QList_value(o.list, index)

value(o, k) == QMap_value(o.map, k, DefaultVal)

valueAt(o, index) == QMap_value(o.map, QList_value(o.list, index), DefaultVal)

at(o, index) == QMap_value(o.map, QList_at(o.list, index), DefaultVal)

insert_dup(o, k, v) ==
    [map |-> QMap_insert(o.map, k, v), list |-> QList_append(o.list, k), ret |-> 0]

insert_move(o, k, v) ==
    [map  |-> QMap_insert(o.map, k, v),
     list |-> QList_append(QList_removeAll(o.list, k), k),
     ret  |-> 0]

insert(o, k, v) ==
    [map  |-> QMap_insert(o.map, k, v),
     list |-> IF ~QList_contains(o.list, k) THEN QList_append(o.list, k) ELSE o.list,
     ret  |-> 0]

append(o, k, v) == insert(o, k, v)

prepend_back(o, k, v) ==
    [map  |-> QMap_insert(o.map, k, v),
     list |-> IF ~QList_contains(o.list, k) THEN QList_append(o.list, k) ELSE o.list,
     ret  |-> 0]

prepend(o, k, v) ==
    [map  |-> QMap_insert(o.map, k, v),
     list |-> IF ~QList_contains(o.list, k) THEN QList_prepend(o.list, k) ELSE o.list,
     ret  |-> 0]

replaceAt_first(o, index, v) ==
    LET k == QList_at(o.list, 0)
    IN  [map |-> QMap_insert(o.map, k, v), list |-> o.list, ret |-> k]

replaceAt(o, index, v) ==
    LET k == QList_at(o.list, index)
    IN  [map |-> QMap_insert(o.map, k, v), list |-> o.list, ret |-> k]

remove_keepstore(o, k) ==
    LET i == QList_indexOf(o.list, k)
    IN  [map |-> o.map, list |-> QList_removeAt(o.list, i), ret |-> i]

remove_clamped(o, k) ==
    LET i == QList_indexOf(o.list, k)
        j == IF i < 0 THEN 0 ELSE i
    IN  [map |-> QMap_remove(o.map, k), list |-> QList_removeAt(o.list, j), ret |-> i]

remove(o, k) ==
    LET i == QList_indexOf(o.list, k)
    IN  [map |-> QMap_remove(o.map, k), list |-> QList_removeAt(o.list, i), ret |-> i]

removeAt_next(o, i) ==
    LET k == key(o, i)
    IN  [map |-> QMap_remove(o.map, k), list |-> QList_removeAt(o.list, i + 1), ret |-> k]

removeAt(o, i) ==
    LET k == key(o, i)
    IN  [map |-> QMap_remove(o.map, k), list |-> QList_removeAt(o.list, i), ret |-> k]

removeLast(o) ==
    LET k == QList_last(o.list)
        r == remove(o, k)
    IN  [map |-> r.map, list |-> r.list, ret |-> k]

\* removeLast on an empty list in a build without assertions: QList::last()
\* yields whatever key g lies in front of the empty list's storage, and that
\* key is then removed
removeLastOnEmpty(o, g) ==
    LET r == remove(o, g)
    IN  [map |-> r.map, list |-> r.list, ret |-> g]

\* last(): the last key with its value, or a default-constructed pair
last(o) ==
    IF o.list = <<>>
    THEN <<DefaultKey, DefaultVal>>
    ELSE <<QList_last(o.list), value(o, QList_last(o.list))>>

clear(o) == [map |-> EmptyMap, list |-> <<>>, ret |-> 0]

\* operator()(key, value)
opCall(o, k, v) ==
    [map  |-> QMap_insert(o.map, k, v),
     list |-> IF ~QList_contains(o.list, k) THEN QList_append(o.list, k) ELSE o.list,
     ret  |-> 0]

\* operator<<(QPair) and operator>>(QPair)
opShl(o, k, v) == insert(o, k, v)

opShr(o, k, v) == prepend(o, k, v)

\* const operator[](key)
opIndexConst(o, k) == QMap_value(o.map, k, DefaultVal)

opIndex_storeonly(o, k) ==
    [map |-> QMap_index(o.map, k), list |-> o.list, ret |-> QMap_index(o.map, k)[k]]

\* non-const operator[](key)
opIndex(o, k) ==
    [map  |-> QMap_index(o.map, k),
     list |-> IF ~QList_contains(o.list, k) THEN QList_append(o.list, k) ELSE o.list,
     ret  |-> QMap_index(o.map, k)[k]]

\* --------------------------------------------- QDataStream (Qt 5) payloads
\* QMap and QMultiMap iterate by ascending key.
RECURSIVE SortedKeys(_)
SortedKeys(S) ==
    IF S = {} THEN <<>>
    ELSE LET mn == CHOOSE x \in S : \A y \in S : x <= y
         IN  <<mn>> \o SortedKeys(S \ {mn})

RECURSIVE Reverse(_)
Reverse(s) == IF s = <<>> THEN <<>> ELSE Append(Reverse(Tail(s)), Head(s))

\* the (key, value) items of a QMap in iteration order
RECURSIVE QMap_itemsOf(_, _)
QMap_itemsOf(m, ks) ==
    IF ks = <<>> THEN <<>>
    ELSE <<(<<Head(ks), m[Head(ks)]>>)>> \o QMap_itemsOf(m, Tail(ks))

QMap_items(m) == QMap_itemsOf(m, SortedKeys(DOMAIN m))

QMap_keys(m) == SortedKeys(DOMAIN m)

\* operator<<(QDataStream, QMap): the items from the last to the first
WriteQMap(m) == Reverse(QMap_items(m))

\* operator>>(QDataStream, QMap): each item read is inserted in turn (a QMap's
\* payload has no repeated key, so insertMulti acts as insert)
RECURSIVE ReadQMapInto(_, _)
ReadQMapInto(m, items) ==
    IF items = <<>> THEN m
    ELSE ReadQMapInto(QMap_insert(m, Head(items)[1], Head(items)[2]), Tail(items))

ReadQMap(items) == ReadQMapInto(EmptyMap, items)

\* ------------------------------------------------- QMultiMap<Key,T> (Qt 5)
\* A multi-map binds each of its keys to the non-empty sequence of its values,
\* the most recently inserted first (the order of values(key) and of iteration).
QMultiMap_insert(m, k, v) ==
    [x \in DOMAIN m \cup {k} |->
        IF x = k THEN (IF k \in DOMAIN m THEN <<v>> \o m[k] ELSE <<v>>) ELSE m[x]]

\* replace: overwrites the most recently inserted value of k, or inserts
QMultiMap_replace(m, k, v) ==
    [x \in DOMAIN m \cup {k} |->
        IF x = k THEN (IF k \in DOMAIN m THEN <<v>> \o Tail(m[k]) ELSE <<v>>) ELSE m[x]]

\* value(key, default): the most recently inserted value of key
QMultiMap_value(m, k, d) == IF k \in DOMAIN m THEN Head(m[k]) ELSE d

QMultiMap_count(m, k) == IF k \in DOMAIN m THEN Len(m[k]) ELSE 0

QMultiMap_remove(m, k) == [x \in DOMAIN m \ {k} |-> m[x]]

RECURSIVE QMultiMap_sizeOf(_, _)
QMultiMap_sizeOf(m, S) ==
    IF S = {} THEN 0
    ELSE LET x == CHOOSE y \in S : TRUE IN Len(m[x]) + QMultiMap_sizeOf(m, S \ {x})

QMultiMap_size(m) == QMultiMap_sizeOf(m, DOMAIN m)

RECURSIVE PairUp(_, _)
PairUp(k, vs) == IF vs = <<>> THEN <<>> ELSE <<(<<k, Head(vs)>>)>> \o PairUp(k, Tail(vs))

RECURSIVE QMultiMap_itemsOf(_, _)
QMultiMap_itemsOf(m, ks) ==
    IF ks = <<>> THEN <<>>
    ELSE PairUp(Head(ks), m[Head(ks)]) \o QMultiMap_itemsOf(m, Tail(ks))

QMultiMap_items(m) == QMultiMap_itemsOf(m, SortedKeys(DOMAIN m))

WriteQMultiMap(m) == Reverse(QMultiMap_items(m))

RECURSIVE ReadQMultiMapInto(_, _)
ReadQMultiMapInto(m, items) ==
    IF items = <<>> THEN m
    ELSE ReadQMultiMapInto(QMultiMap_insert(m, Head(items)[1], Head(items)[2]), Tail(items))

ReadQMultiMap(items) == ReadQMultiMapInto(EmptyMap, items)

\* ----------------------------------- OrderedQMap and QDataStream
NoStream == [keys |-> <<>>, payload |-> <<>>, state |-> "empty"]

\* the loop "for (Key k : keys) tmpMap.insert(k, obj.value(k))"
RECURSIVE FillTmpMap(_, _, _)
FillTmpMap(tmp, o, ks) ==
    IF ks = <<>> THEN tmp
    ELSE FillTmpMap(QMap_insert(tmp, Head(ks), value(o, Head(ks))), o, Tail(ks))

streamOut_sorted(o) ==
    LET tmpMap == FillTmpMap(EmptyMap, o, keys(o))
    IN  [keys |-> QMap_keys(tmpMap), payload |-> WriteQMap(tmpMap), state |-> "written"]

\* operator<<(QDataStream &out, const OrderedQMap &obj)
streamOut(o) ==
    LET tmpMap == FillTmpMap(EmptyMap, o, keys(o))
    IN  [keys |-> keys(o), payload |-> WriteQMap(tmpMap), state |-> "written"]

\* the loop "for (Key k : keys) obj.insert(k, tmpMap.value(k))"
RECURSIVE Replay(_, _, _)
Replay(o, ks, tmp) ==
    IF ks = <<>> THEN o
    ELSE Replay(Obj(insert(o, Head(ks), QMap_value(tmp, Head(ks), DefaultVal))), Tail(ks), tmp)

streamIn_cleared(s, o) == Replay(EmptyObj, s.keys, ReadQMap(s.payload))

\* operator>>(QDataStream &in, OrderedQMap &obj)
streamIn(s, o) == Replay(o, s.keys, ReadQMap(s.payload))

\* --------------------------------------------- OrderedQMultiMap<Key,T>
multi_contains(o, k) == QList_contains(o.list, k)

multi_value(o, k) == QMultiMap_value(o.map, k, DefaultVal)

multi_size(o) == QMultiMap_size(o.map)

multi_count(o, k) == QMultiMap_count(o.map, k)

multi_keys(o) == o.list

multi_insert_ifabsent(o, k, v) ==
    [map  |-> QMultiMap_insert(o.map, k, v),
     list |-> IF ~QList_contains(o.list, k) THEN QList_append(o.list, k) ELSE o.list,
     ret  |-> 0]

multi_insert(o, k, v) ==
    [map |-> QMultiMap_insert(o.map, k, v), list |-> QList_append(o.list, k), ret |-> 0]

multi_append(o, k, v) == multi_insert(o, k, v)

multi_prepend(o, k, v) ==
    [map  |-> QMultiMap_insert(o.map, k, v),
     list |-> IF ~QList_contains(o.list, k) THEN QList_prepend(o.list, k) ELSE o.list,
     ret  |-> 0]

multi_replace_adds(o, k, v) ==
    [map  |-> QMultiMap_insert(o.map, k, v),
     list |-> IF ~QList_contains(o.list, k) THEN QList_append(o.list, k) ELSE o.list,
     ret  |-> 0]

multi_replace(o, k, v) ==
    [map  |-> QMultiMap_replace(o.map, k, v),
     list |-> IF ~QList_contains(o.list, k) THEN QList_append(o.list, k) ELSE o.list,
     ret  |-> 0]

multi_remove_one(o, k) ==
    [map  |-> QMultiMap_remove(o.map, k),
     list |-> QList_removeAt(o.list, QList_indexOf(o.list, k)),
     ret  |-> QMultiMap_count(o.map, k)]

multi_remove(o, k) ==
    [map  |-> QMultiMap_remove(o.map, k),
     list |-> QList_removeAll(o.list, k),
     ret  |-> QMultiMap_count(o.map, k)]

multi_clear(o) == [map |-> EmptyMap, list |-> <<>>, ret |-> 0]

multi_opCall(o, k, v) ==
    [map |-> QMultiMap_insert(o.map, k, v), list |-> QList_append(o.list, k), ret |-> 0]

multi_opShl(o, k, v) == multi_insert(o, k, v)

\* the loop "for (Key k : keys) tmpMap.insert(k, obj.value(k))"
RECURSIVE MultiFillTmpMap(_, _, _)
MultiFillTmpMap(tmp, o, ks) ==
    IF ks = <<>> THEN tmp
    ELSE MultiFillTmpMap(QMultiMap_insert(tmp, Head(ks), multi_value(o, Head(ks))), o, Tail(ks))

\* operator<<(QDataStream &out, const OrderedQMultiMap &obj)
multi_streamOut(o) ==
    LET tmpMap == MultiFillTmpMap(EmptyMap, o, multi_keys(o))
    IN  [keys |-> multi_keys(o), payload |-> WriteQMultiMap(tmpMap), state |-> "written"]

\* the loop "for (Key k : keys) obj.insert(k, tmpMap.value(k))"
RECURSIVE MultiReplay(_, _, _)
MultiReplay(o, ks, tmp) ==
    IF ks = <<>> THEN o
    ELSE MultiReplay(Obj(multi_insert(o, Head(ks), QMultiMap_value(tmp, Head(ks), DefaultVal))),
                     Tail(ks), tmp)

\* operator>>(QDataStream &in, OrderedQMultiMap &obj)
multi_streamIn(s, o) == MultiReplay(o, s.keys, ReadQMultiMap(s.payload))

\* ------------------------------------------------------------- state
NoCall == [op |-> "init", key |-> 0, val |-> 0, idx |-> 0, ret |-> 0, err |-> "none"]

Constructed ==
    /\ obj = EmptyObj
    /\ mobj = EmptyObj
    /\ call = NoCall
    /\ prev = EmptyObj
    /\ hist = <<>>
    /\ stream = NoStream
    /\ tgt = EmptyObj

Init == Constructed /\ detail = TRUE

\* the same objects, with only the name of the last call recorded
InitNamesOnly == Constructed /\ detail = FALSE

\* A call on the OrderedQMap object: r is the mutator's result.  prev and call
\* record the object before the call, the arguments and the returned value.
Effect(name, k, v, i, r) ==
    /\ obj' = Obj(r)
    /\ prev' = IF detail THEN obj ELSE prev
    /\ call' = IF detail
               THEN [op |-> name, key |-> k, val |-> v, idx |-> i, ret |-> r.ret, err |-> "none"]
               ELSE [NoCall EXCEPT !.op = name]
    /\ UNCHANGED <<mobj, stream, tgt, detail>>

Did(name, k, v, i, r) == Effect(name, k, v, i, r) /\ UNCHANGED hist

\* The same call in a run that logs its (key, value) arguments in hist.
Logged(name, k, v, r) ==
    /\ Len(hist) < MaxCalls
    /\ Effect(name, k, v, 0, r)
    /\ hist' = Append(hist, <<k, v>>)

\* A const call: the object is not touched, only the result is recorded.
Read(name, k, i, result) ==
    /\ prev' = obj
    /\ call' = [op |-> name, key |-> k, val |-> 0, idx |-> i, ret |-> result, err |-> "none"]
    /\ UNCHANGED <<obj, mobj, hist, stream, tgt, detail>>

Insert(k, v) == Did("insert", k, v, 0, insert(obj, k, v))

AppendKV(k, v) == Did("append", k, v, 0, append(obj, k, v))

Prepend(k, v) == Did("prepend", k, v, 0, prepend(obj, k, v))

OpCall(k, v) == Did("opCall", k, v, 0, opCall(obj, k, v))

OpShl(k, v) == Did("opShl", k, v, 0, opShl(obj, k, v))

OpShr(k, v) == Did("opShr", k, v, 0, opShr(obj, k, v))

OpIndex(k) == Did("opIndex", k, 0, 0, opIndex(obj, k))

\* replaceAt reads QList::at(index): only positions of the list are modelled
ReplaceAt(i, v) ==
    /\ i >= 0 /\ i < Len(obj.list)
    /\ Did("replaceAt", 0, v, i, replaceAt(obj, i, v))

RemoveAt(i) == Did("removeAt", 0, 0, i, removeAt(obj, i))

Remove(k) == Did("remove", k, 0, 0, remove(obj, k))

\* removeLast reads QList::last(): only modelled on a non-empty list
RemoveLast ==
    /\ obj.list # <<>>
    /\ Did("removeLast", 0, 0, 0, removeLast(obj))

Clear == Did("clear", 0, 0, 0, clear(obj))

ValueAt(i) == Read("valueAt", 0, i, valueAt(obj, i))

KeyAt(i) == Read("keyAt", 0, i, key(obj, i))

\* positions of the list, and positions one or two steps outside it
ValidIdx == 0..(Len(obj.list) - 1)
AnyIdx == (0 - 2)..(Len(obj.list) + 1)

Next ==
    \/ \E k \in Key, v \in Val : Insert(k, v)
    \/ \E k \in Key, v \in Val : AppendKV(k, v)
    \/ \E k \in Key, v \in Val : Prepend(k, v)
    \/ \E k \in Key, v \in Val : OpCall(k, v)
    \/ \E k \in Key, v \in Val : OpShl(k, v)
    \/ \E k \in Key, v \in Val : OpShr(k, v)
    \/ \E k \in Key : OpIndex(k)
    \/ \E i \in ValidIdx, v \in Val : ReplaceAt(i, v)
    \/ \E i \in ValidIdx : RemoveAt(i)
    \/ \E k \in Key : Remove(k)
    \/ RemoveLast
    \/ Clear

\* OrderedQMap under every mutating call with valid arguments.
Spec == InitNamesOnly /\ [][Next]_vars

\* insert, prepend and remove, and the positional reads value(int) and key(int)
\* with any index.
NextOps ==
    \/ \E k \in Key, v \in Val : Insert(k, v)
    \/ \E k \in Key, v \in Val : Prepend(k, v)
    \/ \E k \in Key, v \in Val : OpShr(k, v)
    \/ \E k \in Key : Remove(k)
    \/ \E i \in AnyIdx : ValueAt(i)
    \/ \E i \in AnyIdx : KeyAt(i)

SpecOps == Init /\ [][NextOps]_vars

\* Mutating calls with removeAt also called on positions outside the list.
NextAny ==
    \/ \E k \in Key, v \in Val : Insert(k, v)
    \/ \E k \in Key, v \in Val : Prepend(k, v)
    \/ \E i \in ValidIdx, v \in Val : ReplaceAt(i, v)
    \/ \E i \in AnyIdx : RemoveAt(i)
    \/ \E k \in Key : Remove(k)
    \/ RemoveLast
    \/ Clear

SpecAny == Init /\ [][NextAny]_vars

\* Only insert and its synonyms, from the empty map, with the calls logged.
LoggedInsert(k, v) == Logged("insert", k, v, insert(obj, k, v))

LoggedAppend(k, v) == Logged("append", k, v, append(obj, k, v))

LoggedOpCall(k, v) == Logged("opCall", k, v, opCall(obj, k, v))

LoggedOpShl(k, v) == Logged("opShl", k, v, opShl(obj, k, v))

NextIns ==
    \/ \E k \in Key, v \in Val : LoggedInsert(k, v)
    \/ \E k \in Key, v \in Val : LoggedAppend(k, v)
    \/ \E k \in Key, v \in Val : LoggedOpCall(k, v)
    \/ \E k \in Key, v \in Val : LoggedOpShl(k, v)

SpecIns == Init /\ [][NextIns]_vars

\* removeLast on an empty map calls QList::last() on an empty list, which is
\* undefined: a build with assertions stops at Q_ASSERT(!isEmpty()), a build
\* without them goes on with an arbitrary key.
RemoveLastOnEmpty ==
    /\ obj.list = <<>>
    /\ \/ \E g \in Key : Did("removeLast", 0, 0, 0, removeLastOnEmpty(obj, g))
       \/ /\ prev' = obj
          /\ call' = [NoCall EXCEPT !.op = "removeLast", !.err = "assert"]
          /\ UNCHANGED <<obj, mobj, hist, stream, tgt, detail>>

Last == Read("last", 0, 0, last(obj))

\* insert, prepend, removeLast on any map and last().
NextLast ==
    \/ \E k \in Key, v \in Val : Insert(k, v)
    \/ \E k \in Key, v \in Val : Prepend(k, v)
    \/ RemoveLast
    \/ RemoveLastOnEmpty
    \/ Last

SpecLast == Init /\ [][NextLast]_vars

OpIndexConst(k) == Read("opIndexConst", k, 0, opIndexConst(obj, k))

ValueKey(k) == Read("valueKey", k, 0, value(obj, k))

\* insert and prepend, the positional mutators on positions of the list, and
\* the accesses by key.
NextPos ==
    \/ \E k \in Key, v \in Val : Insert(k, v)
    \/ \E k \in Key, v \in Val : Prepend(k, v)
    \/ \E i \in ValidIdx, v \in Val : ReplaceAt(i, v)
    \/ \E i \in ValidIdx : RemoveAt(i)
    \/ \E k \in Key : OpIndex(k)
    \/ \E k \in Key : OpIndexConst(k)
    \/ \E k \in Key : ValueKey(k)

SpecPos == Init /\ [][NextPos]_vars

\* A writer builds a map, writes it to a stream, and a reader reads the stream
\* into a newly constructed (empty) OrderedQMap, tgt.
StreamOut ==
    /\ stream.state = "empty"
    /\ stream' = streamOut(obj)
    /\ prev' = obj
    /\ call' = [op |-> "streamOut", key |-> 0, val |-> 0, idx |-> 0, ret |-> 0, err |-> "none"]
    /\ UNCHANGED <<obj, mobj, hist, tgt, detail>>

StreamIn ==
    /\ stream.state = "written"
    /\ tgt' = streamIn(stream, tgt)
    /\ stream' = [stream EXCEPT !.state = "read"]
    /\ prev' = tgt
    /\ call' = [op |-> "streamIn", key |-> 0, val |-> 0, idx |-> 0, ret |-> 0, err |-> "none"]
    /\ UNCHANGED <<obj, mobj, hist, detail>>

Building == stream.state = "empty"

NextRT ==
    \/ Building /\ \E k \in Key, v \in Val : Insert(k, v)
    \/ Building /\ \E k \in Key, v \in Val : Prepend(k, v)
    \/ Building /\ \E k \in Key : Remove(k)
    \/ StreamOut
    \/ StreamIn

SpecRT == Init /\ [][NextRT]_vars

\* The reader's map is filled by insert before the stream is read into it.
TgtInsert(k, v) ==
    /\ tgt' = Obj(insert(tgt, k, v))
    /\ call' = [NoCall EXCEPT !.op = "tgtInsert"]
    /\ UNCHANGED <<obj, mobj, prev, hist, stream, detail>>

\* A writer builds a map of at most MaxMergeLen keys and writes it; the reader
\* holds a map of at most MaxMergeLen keys of its own when it reads the stream.
NextMerge ==
    \/ Building /\ Len(obj.list) < MaxMergeLen /\ \E k \in Key, v \in Val : Insert(k, v)
    \/ Building /\ Len(obj.list) < MaxMergeLen /\ \E k \in Key, v \in Val : Prepend(k, v)
    \/ StreamOut
    \/ /\ stream.state = "written"
       /\ Len(tgt.list) < MaxMergeLen
       /\ \E k \in Key, v \in Val : TgtInsert(k, v)
    \/ StreamIn

SpecMerge == InitNamesOnly /\ [][NextMerge]_vars

\* A call on the OrderedQMultiMap object (insert, append, prepend, replace,
\* operator(), operator<<, remove, clear).
MultiDid(name, k, v, r) ==
    /\ mobj' = Obj(r)
    /\ prev' = mobj
    /\ call' = [op |-> name, key |-> k, val |-> v, idx |-> 0, ret |-> r.ret, err |-> "none"]
    /\ UNCHANGED <<obj, hist, stream, tgt, detail>>

\* the model holds at most MaxMSize values in the multi-map
Room == multi_size(mobj) < MaxMSize

MultiInsert(k, v) == Room /\ MultiDid("insert", k, v, multi_insert(mobj, k, v))

MultiAppend(k, v) == Room /\ MultiDid("append", k, v, multi_append(mobj, k, v))

MultiPrepend(k, v) == Room /\ MultiDid("prepend", k, v, multi_prepend(mobj, k, v))

MultiReplace(k, v) == Room /\ MultiDid("replace", k, v, multi_replace(mobj, k, v))

MultiOpCall(k, v) == Room /\ MultiDid("opCall", k, v, multi_opCall(mobj, k, v))

MultiOpShl(k, v) == Room /\ MultiDid("opShl", k, v, multi_opShl(mobj, k, v))

MultiRemove(k) == MultiDid("remove", k, 0, multi_remove(mobj, k))

MultiClear == MultiDid("clear", 0, 0, multi_clear(mobj))

NextMulti ==
    \/ \E k \in MKey, v \in Val : MultiInsert(k, v)
    \/ \E k \in MKey, v \in Val : MultiAppend(k, v)
    \/ \E k \in MKey, v \in Val : MultiPrepend(k, v)
    \/ \E k \in MKey, v \in Val : MultiReplace(k, v)
    \/ \E k \in MKey, v \in Val : MultiOpCall(k, v)
    \/ \E k \in MKey, v \in Val : MultiOpShl(k, v)
    \/ \E k \in MKey : MultiRemove(k)
    \/ MultiClear

SpecMulti == Init /\ [][NextMulti]_vars

\* insert and replace on the multi-map.
NextReplace ==
    \/ \E k \in MKey, v \in Val : MultiInsert(k, v)
    \/ \E k \in MKey, v \in Val : MultiReplace(k, v)

SpecReplace == Init /\ [][NextReplace]_vars

\* A writer builds a multi-map by insert, writes it, and a reader reads the
\* stream into a newly constructed (empty) OrderedQMultiMap, tgt.
MultiStreamOut ==
    /\ stream.state = "empty"
    /\ stream' = multi_streamOut(mobj)
    /\ prev' = mobj
    /\ call' = [op |-> "streamOut", key |-> 0, val |-> 0, idx |-> 0, ret |-> 0, err |-> "none"]
    /\ UNCHANGED <<obj, mobj, hist, tgt, detail>>

MultiStreamIn ==
    /\ stream.state = "written"
    /\ tgt' = multi_streamIn(stream, tgt)
    /\ stream' = [stream EXCEPT !.state = "read"]
    /\ prev' = mobj
    /\ call' = [op |-> "streamIn", key |-> 0, val |-> 0, idx |-> 0, ret |-> 0, err |-> "none"]
    /\ UNCHANGED <<obj, mobj, hist, detail>>

NextMultiRT ==
    \/ Building /\ \E k \in MKey, v \in Val : MultiInsert(k, v)
    \/ MultiStreamOut
    \/ MultiStreamIn

SpecMultiRT == Init /\ [][NextMultiRT]_vars

\* ------------------------------------------------------------- properties
NoDup(l) == \A i, j \in DOMAIN l : i # j => l[i] # l[j]

\* the positions the claims call valid for object o: 0 <= index < size()
InRange(o, i) == i >= 0 /\ i < size(o)

\* l with the entry at 0-based position i deleted
Without(l, i) == [n \in 1..(Len(l) - 1) |-> IF n <= i THEN l[n] ELSE l[n + 1]]

\* C1: after any sequence of mutating calls with valid arguments the order
\* sequence has no duplicate key, is as long as the store is large, and holds
\* exactly the keys of the store.
C1_OrderMatchesStore ==
    /\ NoDup(obj.list)
    /\ Len(obj.list) = size(obj)
    /\ Range(obj.list) = DOMAIN obj.map

C1_Witness ==
    /\ call.op = "removeAt"
    /\ Len(obj.list) = 2
    /\ obj.list[1] > obj.list[2]
    /\ obj.map[obj.list[1]] # obj.map[obj.list[2]]

\* C2: after inserts into an empty map (keys may repeat) keys() lists the
\* distinct keys by first insertion and value(k) is the value of the last
\* insert of k; inserting a present key changes its value and not keys().
HistKeys == {hist[n][1] : n \in DOMAIN hist}

FirstAt(k) == CHOOSE n \in DOMAIN hist : hist[n][1] = k /\ \A m \in 1..(n - 1) : hist[m][1] # k

LastAt(k) ==
    CHOOSE n \in DOMAIN hist : hist[n][1] = k /\ \A m \in (n + 1)..Len(hist) : hist[m][1] # k

C2_InsertOrder ==
    /\ NoDup(keys(obj))
    /\ Range(keys(obj)) = HistKeys
    /\ \A i, j \in DOMAIN obj.list : i < j => FirstAt(obj.list[i]) < FirstAt(obj.list[j])
    /\ DOMAIN obj.map = HistKeys
    /\ \A k \in HistKeys : value(obj, k) = hist[LastAt(k)][2]
    /\ (call.op # "init" /\ contains(prev, call.key)) =>
           (keys(obj) = keys(prev) /\ value(obj, call.key) = call.val)

C2_Witness ==
    /\ Len(hist) >= 3
    /\ Len(obj.list) = 2
    /\ obj.list[1] > obj.list[2]
    /\ contains(prev, call.key)
    /\ value(prev, call.key) # call.val
    /\ call.key = obj.list[1]

\* C3: prepend of an absent key puts it at position 0 in front of the previous
\* keys; prepend of a present key leaves keys() as it was; either way
\* value(key) is the value passed.
C3_Prepend ==
    call.op \in {"prepend", "opShr"} =>
        /\ ~contains(prev, call.key) =>
               (key(obj, 0) = call.key /\ keys(obj) = <<call.key>> \o keys(prev))
        /\ contains(prev, call.key) => keys(obj) = keys(prev)
        /\ value(obj, call.key) = call.val

C3_Witness ==
    /\ call.op = "prepend"
    /\ ~contains(prev, call.key)
    /\ Len(prev.list) = 2
    /\ call.val # DefaultVal

\* C4: remove of a present key returns the position the key had, and leaves
\* the map without that key, one smaller, with the other keys in their
\* previous order and with their previous values.
C4_RemovePresent ==
    (call.op = "remove" /\ contains(prev, call.key)) =>
        /\ call.ret >= 0 /\ call.ret < Len(prev.list)
        /\ prev.list[call.ret + 1] = call.key
        /\ ~contains(obj, call.key)
        /\ size(obj) = size(prev) - 1
        /\ keys(obj) = Without(keys(prev), call.ret)
        /\ DOMAIN obj.map = DOMAIN prev.map \ {call.key}
        /\ \A k \in DOMAIN obj.map : obj.map[k] = prev.map[k]

C4_Witness ==
    /\ call.op = "remove"
    /\ Len(prev.list) = 3
    /\ call.ret = 1
    /\ Len(obj.list) = 2

\* C5: removeAt with an index outside [0, size) leaves the store and the
\* order sequence as they were.
C5_RemoveAtOutside ==
    (call.op = "removeAt" /\ ~InRange(prev, call.idx)) => obj = prev

\* C6: for an index outside [0, size), value(index) is the default value and
\* key(index) the default key, whatever the map holds, and the map is not
\* modified.
C6_ReadOutside ==
    (call.op \in {"valueAt", "keyAt"} /\ ~InRange(prev, call.idx)) =>
        /\ call.op = "valueAt" => call.ret = DefaultVal
        /\ call.op = "keyAt" => call.ret = DefaultKey
        /\ obj = prev

\* C7: a map built by insert, prepend and remove, written to a stream and read
\* into an empty OrderedQMap, gives a map with the same keys() and the same
\* value(key) for every key.
C7_RoundTrip ==
    call.op = "streamIn" =>
        /\ keys(tgt) = keys(obj)
        /\ \A k \in Key : value(tgt, k) = value(obj, k)
        /\ DOMAIN tgt.map = DOMAIN obj.map

C7_Witness ==
    /\ call.op = "streamIn"
    /\ Len(obj.list) = 3
    /\ obj.list[1] > obj.list[2]
    /\ tgt = obj
    /\ \E k \in DOMAIN obj.map : obj.map[k] # DefaultVal

\* C8: a multi-map built by insert (a key possibly several times), written to a
\* stream and read into an empty OrderedQMultiMap, gives a multi-map with the
\* same keys() and, for every key, the same sequence of stored values.
C8_MultiRoundTrip ==
    call.op = "streamIn" =>
        /\ multi_keys(tgt) = multi_keys(mobj)
        /\ tgt.map = mobj.map

\* C9: after any sequence of insert, append, prepend, replace, operator(),
\* operator<<, remove and clear the order sequence holds one entry per stored
\* value: each key occurs in keys() as often as the store counts it, and
\* keys() is as long as size().
Occurrences(l, k) == Len(SelectSeq(l, LAMBDA x : x = k))

C9_MultiCorrespondence ==
    /\ \A k \in MKey : Occurrences(multi_keys(mobj), k) = multi_count(mobj, k)
    /\ Len(multi_keys(mobj)) = multi_size(mobj)

\* C10: insert on the multi-map appends one entry key to the order sequence
\* whether or not key is present, and adds value to the store in front of the
\* earlier values of key, which are kept.
C10_MultiInsertAppends ==
    call.op \in {"insert", "append", "opCall", "opShl"} =>
        /\ multi_keys(mobj) = Append(multi_keys(prev), call.key)
        /\ multi_count(mobj, call.key) = multi_count(prev, call.key) + 1
        /\ mobj.map[call.key] =
               <<call.val>> \o (IF call.key \in DOMAIN prev.map THEN prev.map[call.key] ELSE <<>>)
        /\ \A k \in DOMAIN prev.map \ {call.key} :
               k \in DOMAIN mobj.map /\ mobj.map[k] = prev.map[k]
        /\ (prev = EmptyObj /\ multi_keys(mobj) = <<call.key, call.key>>) =>
               multi_count(mobj, call.key) = 2

C10_Witness ==
    /\ call.op = "insert"
    /\ multi_keys(mobj) = <<call.key, call.key>>
    /\ multi_count(mobj, call.key) = 2
    /\ mobj.map[call.key][1] # mobj.map[call.key][2]

\* C11: remove on the multi-map deletes every value of key from the store and
\* every occurrence of key from the order sequence, returns the number of
\* values deleted (0 for an absent key, and then nothing changes), and leaves
\* the entries and the relative order of the other keys as they were.
RECURSIVE Dropped(_, _)
Dropped(l, k) ==
    IF l = <<>> THEN <<>>
    ELSE IF Head(l) = k THEN Dropped(Tail(l), k)
         ELSE <<Head(l)>> \o Dropped(Tail(l), k)

C11_MultiRemove ==
    call.op = "remove" =>
        /\ call.key \notin DOMAIN mobj.map
        /\ ~multi_contains(mobj, call.key)
        /\ multi_keys(mobj) = Dropped(multi_keys(prev), call.key)
        /\ call.ret = multi_count(prev, call.key)
        /\ DOMAIN mobj.map = DOMAIN prev.map \ {call.key}
        /\ \A k \in DOMAIN mobj.map : mobj.map[k] = prev.map[k]
        /\ (call.key \notin DOMAIN prev.map /\ ~multi_contains(prev, call.key)) =>
               (call.ret = 0 /\ mobj = prev)

C11_Witness ==
    /\ call.op = "remove"
    /\ call.ret = 2
    /\ Len(multi_keys(prev)) = 3
    /\ prev.list[1] = call.key
    /\ prev.list[3] = call.key
    /\ Len(multi_keys(mobj)) = 1

\* C13: remove of an absent key returns -1 and leaves the store and the order
\* sequence as they were.
C13_RemoveAbsent ==
    (call.op = "remove" /\ ~contains(prev, call.key) /\ call.key \notin DOMAIN prev.map) =>
        (call.ret = 0 - 1 /\ obj = prev)

C13_Witness ==
    /\ call.op = "remove"
    /\ ~contains(prev, call.key)
    /\ Len(prev.list) = 2
    /\ call.ret = 0 - 1

\* C12: removeLast on a non-empty map removes the key at position size()-1
\* from both structures and returns it, the other keys keeping their order; on
\* an empty map it fails with an EmptyContainer error and the map stays empty;
\* last() on an empty map returns the default-constructed pair.
C12_RemoveLast ==
    /\ (call.op = "removeLast" /\ prev.list # <<>>) =>
           /\ call.err = "none"
           /\ call.ret = prev.list[size(prev)]
           /\ keys(obj) = SubSeq(keys(prev), 1, size(prev) - 1)
           /\ DOMAIN obj.map = DOMAIN prev.map \ {call.ret}
           /\ \A k \in DOMAIN obj.map : obj.map[k] = prev.map[k]
    /\ (call.op = "removeLast" /\ prev.list = <<>>) =>
           (call.err = "EmptyContainer" /\ obj = EmptyObj)
    /\ (call.op = "last" /\ prev.list = <<>>) => call.ret = <<DefaultKey, DefaultVal>>

\* C14: removeAt with 0 <= index < size returns the key that was at that
\* position and removes exactly that key from the store and the order
\* sequence; the other keys keep their order and values; the map is left as
\* remove(key(index)) leaves it.
C14_RemoveAtValid ==
    (call.op = "removeAt" /\ InRange(prev, call.idx)) =>
        /\ call.ret = prev.list[call.idx + 1]
        /\ keys(obj) = Without(keys(prev), call.idx)
        /\ DOMAIN obj.map = DOMAIN prev.map \ {call.ret}
        /\ \A k \in DOMAIN obj.map : obj.map[k] = prev.map[k]
        /\ obj = Obj(remove(prev, key(prev, call.idx)))

C14_Witness ==
    /\ call.op = "removeAt"
    /\ Len(prev.list) = 3
    /\ call.idx = 1
    /\ Len(obj.list) = 2
    /\ call.ret # DefaultKey

\* C15: replaceAt with 0 <= index < size binds value to the key at that
\* position (value(key(index)) and at(index) give it), returns that key, and
\* leaves keys(), size() and the values of the other keys as they were.
C15_ReplaceAt ==
    (call.op = "replaceAt" /\ InRange(prev, call.idx)) =>
        /\ call.ret = key(prev, call.idx)
        /\ value(obj, key(obj, call.idx)) = call.val
        /\ at(obj, call.idx) = call.val
        /\ keys(obj) = keys(prev)
        /\ size(obj) = size(prev)
        /\ DOMAIN obj.map = DOMAIN prev.map
        /\ \A k \in DOMAIN prev.map \ {call.ret} : obj.map[k] = prev.map[k]

C15_Witness ==
    /\ call.op = "replaceAt"
    /\ Len(prev.list) = 3
    /\ call.idx = 2
    /\ value(prev, call.ret) # call.val

\* C18: non-const operator[] on an absent key appends the key to the order
\* sequence and binds it to the default value (size() grows by 1, contains
\* becomes true); on a present key keys() and size() stay; the const
\* operator[] and value(key) do not modify the map and give the default value
\* for an absent key.
C18_IndexAccess ==
    /\ (call.op = "opIndex" /\ ~contains(prev, call.key)) =>
           /\ keys(obj) = Append(keys(prev), call.key)
           /\ call.key \in DOMAIN obj.map
           /\ value(obj, call.key) = DefaultVal
           /\ call.ret = DefaultVal
           /\ size(obj) = size(prev) + 1
           /\ contains(obj, call.key)
    /\ (call.op = "opIndex" /\ contains(prev, call.key)) =>
           (keys(obj) = keys(prev) /\ size(obj) = size(prev))
    /\ call.op \in {"opIndexConst", "valueKey"} =>
           /\ obj = prev
           /\ ~contains(prev, call.key) => call.ret = DefaultVal
           /\ contains(prev, call.key) => call.ret = prev.map[call.key]

C18_Witness ==
    /\ call.op = "opIndex"
    /\ ~contains(prev, call.key)
    /\ Len(prev.list) = 2
    /\ obj.list[3] = call.key

\* the multi-map after insert(k, v) for each v of vs in turn
RECURSIVE InsertRun(_, _, _)
InsertRun(o, k, vs) ==
    IF vs = <<>> THEN o
    ELSE InsertRun(Obj(multi_insert(o, k, Head(vs))), k, Tail(vs))

ValRuns == UNION {[1..n -> Val] : n \in 1..MaxMSize}

UnderCounted(o, k) == Occurrences(multi_keys(o), k) < multi_count(o, k)

\* C16 as stated: some run of insert(k, v) calls followed by replace(k, v')
\* leaves fewer entries for k in the order sequence than values for k in the
\* store.
C16_ReplaceUnderCounts ==
    \E k \in MKey, vs \in ValRuns, v \in Val :
        UnderCounted(Obj(multi_replace(InsertRun(mobj, k, vs), k, v)), k)

\* C16 as amended: after insert and replace calls the order sequence holds as
\* many entries for each key as the store holds values for it; replace on a
\* present key overwrites the most recently inserted value, adds no value and
\* no order entry, and on an absent key adds one value and appends the key.
C16_ReplaceKeepsCount ==
    /\ \A k \in MKey : Occurrences(multi_keys(mobj), k) = multi_count(mobj, k)
    /\ (call.op = "replace" /\ multi_contains(prev, call.key)) =>
           /\ multi_keys(mobj) = multi_keys(prev)
           /\ mobj.map[call.key] = <<call.val>> \o Tail(prev.map[call.key])
    /\ (call.op = "replace" /\ ~multi_contains(prev, call.key)) =>
           /\ multi_keys(mobj) = Append(multi_keys(prev), call.key)
           /\ mobj.map[call.key] = <<call.val>>

C16_Witness ==
    /\ call.op = "replace"
    /\ multi_count(prev, call.key) = 2
    /\ prev.map[call.key][1] # call.val
    /\ Occurrences(multi_keys(mobj), call.key) = 2

\* C17: reading a written map S (obj) into a map T (prev, the reader before the
\* call) merges: keys() is T's keys followed by the keys of S that T lacked,
\* in S's order; every key of S has S's value, every other key of T keeps its
\* value; and the order sequence still has no duplicate and holds exactly the
\* keys of the store.
C17_ReadMerges ==
    call.op = "streamIn" =>
        /\ keys(tgt) = keys(prev) \o SelectSeq(keys(obj), LAMBDA k : ~contains(prev, k))
        /\ \A k \in Range(keys(obj)) : value(tgt, k) = value(obj, k)
        /\ \A k \in Range(keys(prev)) \ Range(keys(obj)) : value(tgt, k) = value(prev, k)
        /\ NoDup(keys(tgt))
        /\ Range(keys(tgt)) = DOMAIN tgt.map
        /\ Len(keys(tgt)) = size(tgt)

C17_Witness ==
    /\ call.op = "streamIn"
    /\ Len(keys(prev)) = 2
    /\ Len(keys(obj)) = 2
    /\ Len(keys(tgt)) = 3
    /\ contains(prev, obj.list[2])
    /\ value(prev, obj.list[2]) # value(obj, obj.list[2])
    /\ tgt.list[3] = obj.list[1]

====
